---- MODULE Spec2Model ----
(***************************************************************************)
(* Frame rendering and annotation normalisation of the algorithm           *)
(* visualiser: the Visualizer dispatcher, the VisualizerFactory for        *)
(* composite frames and the structure renderers (array, stack, queue,      *)
(* linked list, tree, graph), each a function from its props to a visual   *)
(* description.  A render pass is one action: the caller supplies props    *)
(* and the component computes its output.                                  *)
(***************************************************************************)
EXTENDS Integers, Sequences, FiniteSets, TLC

(***************************************************************************)
(* JavaScript values.  Nullable or shape-varying values are tagged         *)
(* records; the elements of lists (indices, colors, labels, values) are    *)
(* plain integers and strings, with two reserved strings for an undefined  *)
(* and a null list element or lookup result.                               *)
(***************************************************************************)
Undef == [t |-> "undefined"]
Null == [t |-> "null"]
List(s) == [t |-> "list", v |-> s]
Num(n) == [t |-> "num", v |-> n]
EmptyObj == [t |-> "obj"]

UndefStr == "<undefined>"
NullStr == "<null>"

IsNullish(x) == x.t \in {"undefined", "null"}
IsArray(x) == x.t = "list"
\* !x is false for every list and object, the empty ones included.
Truthy(x) == ~IsNullish(x) /\ ~(x.t = "num" /\ x.v = 0)
\* o.f: a property the value does not carry reads as undefined.
Get(o, f) == IF f \in DOMAIN o /\ f \notin {"t", "v"} THEN o[f] ELSE Undef
\* a string used in a boolean position ("label && ...", "c || default")
TruthyStr(s) == s \notin {UndefStr, NullStr, ""}
OrElse(s, d) == IF TruthyStr(s) THEN s ELSE d
\* lst[k] for a 0-based k: undefined past the end and on a number;
\* never evaluated on undefined/null (the callers decide that case).
At(lst, k) == IF lst.t = "list" /\ k >= 0 /\ k < Len(lst.v) THEN lst.v[k + 1] ELSE UndefStr
\* lst.includes(i), lst.indexOf(i) on a list
Includes(lst, i) == \E k \in 1..Len(lst.v) : lst.v[k] = i
IndexOf(lst, i) ==
    IF Includes(lst, i)
    THEN (CHOOSE k \in 1..Len(lst.v) : lst.v[k] = i /\ \A j \in 1..(k - 1) : lst.v[j] # i) - 1
    ELSE -1
\* {...a, ...b}: the own properties of a, then those of b over them;
\* a number or null/undefined spreads no property.
Spread(a, b) ==
    LET da == IF a.t = "obj" THEN DOMAIN a \ {"t"} ELSE {}
        db == IF b.t = "obj" THEN DOMAIN b \ {"t"} ELSE {}
    IN [f \in da \cup db \cup {"t"} |->
            IF f = "t" THEN "obj" ELSE IF f \in db THEN b[f] ELSE a[f]]

Blue == "#3498db"
Green == "#2ecc71"
Orange == "#f39c12"
LightBlue == "#4f9bff"

\* The output of a component whose render threw.
Throw(c) == [comp |-> c, kind |-> "throw"]
\* A component that returned null.
Nothing(c) == [comp |-> c, kind |-> "null"]

(***************************************************************************)
(* Bounds of the inputs.                                                   *)
(***************************************************************************)
MaxLen == 3
MaxHl == 2
MaxId == 1
MaxStructs == 2
MaxStep == 3
MaxCoord == 2

SeqsUpTo(S, n) == UNION {[1..k -> S] : k \in 0..n}
Prefix(s, k) == SubSeq(s, 1, k)

AllValues == <<7, 5, 9, 6, 8>>
AllColors == <<"red", "gold", "pink", "teal">>
AllLabels == <<"mid", "low", "high", "key">>
AltColors == <<"navy", "lime", "grey", "plum">>
AltLabels == <<"i", "j", "k", "m">>

ValueLists == {Prefix(AllValues, k) : k \in 0..MaxLen}
IdLists == SeqsUpTo(0..MaxId, MaxHl)
ColorFields == {Undef} \cup {List(Prefix(AllColors, k)) : k \in 0..MaxHl}
LabelFields == {Undef} \cup {List(Prefix(AllLabels, k)) : k \in 0..MaxHl}
IndexFields == {Undef, Num(5)} \cup {List(s) : s \in IdLists}

\* {<key>, colors, labels} objects, a field left out when undefined
HlObjK(key, i, c, l) ==
    LET fs == {"t"} \cup (IF i = Undef THEN {} ELSE {key})
                    \cup (IF c = Undef THEN {} ELSE {"colors"})
                    \cup (IF l = Undef THEN {} ELSE {"labels"})
    IN [f \in fs |-> CASE f = "t" -> "obj" [] f = key -> i
                       [] f = "colors" -> c [] OTHER -> l]
HlObj(i, c, l) == HlObjK("indices", i, c, l)
HlObjects == {HlObj(i, c, l) : i \in IndexFields, c \in ColorFields, l \in LabelFields}
FlatLists == {List(s) : s \in IdLists}
Highlights == {Undef, Null, Num(5)} \cup FlatLists \cup HlObjects
NodeHighlights ==
    {Undef} \cup {HlObjK("node_ids", i, c, l) : i \in IndexFields, c \in ColorFields, l \in LabelFields}
\* fully zipped objects in the second palette (the snapshot's own highlights)
OwnHighlights ==
    {Undef} \cup {HlObj(List(s), List(Prefix(AltColors, Len(s))), List(Prefix(AltLabels, Len(s)))) :
                    s \in SeqsUpTo(0..MaxId, 1) \cup {<<0, MaxId>>}}

(***************************************************************************)
(* Annotation lookup shared by the linear renderers: the code repeats      *)
(* hl?.indices?.includes(i) and hl.indices.indexOf(i) in each of them.     *)
(***************************************************************************)
\* hl?.indices : undefined on null/undefined, on a list and on a number
IndicesOf(hl) == IF hl.t = "obj" THEN Get(hl, "indices") ELSE Undef
\* x?.includes(i) throws when x is neither nullish nor a list
IncludesThrows(ind) == ~IsNullish(ind) /\ ~IsArray(ind)
IsHighlighted(hl, i) == LET ind == IndicesOf(hl) IN IsArray(ind) /\ Includes(ind, i)
HighlightIndex(hl, i) == IndexOf(IndicesOf(hl), i)

(***************************************************************************)
(* ArrayVisualizer, second variant: ({ data, highlights })                 *)
(***************************************************************************)
\* normalizeHighlights with the labels of a flat list left out
normalizeHighlightsNoLabels(h) ==
    IF ~Truthy(h) THEN [t |-> "obj", indices |-> List(<<>>), colors |-> List(<<>>), labels |-> List(<<>>)]
    ELSE IF IsArray(h)
    THEN [t |-> "obj", indices |-> h,
          colors |-> List([k \in 1..Len(h.v) |-> Blue]),
          labels |-> List(<<>>)]
    ELSE h

normalizeHighlights(h) ==
    IF ~Truthy(h) THEN [t |-> "obj", indices |-> List(<<>>), colors |-> List(<<>>), labels |-> List(<<>>)]
    ELSE IF IsArray(h)
    THEN [t |-> "obj", indices |-> h,
          colors |-> List([k \in 1..Len(h.v) |-> Blue]),
          labels |-> List([k \in 1..Len(h.v) |-> NullStr])]
    ELSE h

mergedHighlights(dataHl, highlights) ==
    Spread(normalizeHighlights(dataHl), normalizeHighlights(highlights))

\* arrayData.highlights: lines 86-104; only called when data is a list or has values
ArrayDataHighlights(data, highlights) ==
    IF IsArray(data) THEN normalizeHighlights(highlights)
    ELSE mergedHighlights(Get(data, "highlights"), highlights)

ArrayDataValues(data) == IF IsArray(data) THEN data ELSE Get(data, "values")

\* one box of the render loop, lines 127-157
ArrayBox(values, hl, index) ==
    LET hi == HighlightIndex(hl, index)
        on == IsHighlighted(hl, index)
    IN [index |-> index,
        value |-> values.v[index + 1],
        active |-> on,
        color |-> IF on /\ hi # -1
                  THEN (IF IsNullish(Get(hl, "colors")) THEN Blue
                        ELSE OrElse(At(Get(hl, "colors"), hi), Blue))
                  ELSE Green,
        label |-> IF on /\ hi # -1
                  THEN (IF IsNullish(Get(hl, "labels")) THEN UndefStr
                        ELSE At(Get(hl, "labels"), hi))
                  ELSE NullStr]

ArrayVisualizerSecond(data, highlights) ==
    IF ~(IsArray(data) \/ (Truthy(data) /\ Truthy(Get(data, "values"))))
    THEN [comp |-> "array", kind |-> "empty-message"]
    ELSE LET values == ArrayDataValues(data)
             hl == ArrayDataHighlights(data, highlights)
         IN IF ~IsArray(values) THEN Throw("array")
            ELSE IF Len(values.v) = 0 THEN [comp |-> "array", kind |-> "empty-message"]
            ELSE IF IncludesThrows(IndicesOf(hl)) THEN Throw("array")
            ELSE [comp |-> "array", kind |-> "ok",
                  annotation |-> hl,
                  boxes |-> [k \in 1..Len(values.v) |-> ArrayBox(values, hl, k - 1)],
                  comparison |-> IF IsArray(data) THEN Undef ELSE Get(data, "comparison")]

(***************************************************************************)
(* ArrayVisualizer, first variant: ({ data }), the snapshot's own          *)
(* highlights only; colors[..] and labels[..] are read without a guard.    *)
(***************************************************************************)
\* hl.colors[hi] / hl.labels[hi] throws on a missing list
UnguardedThrows(hl, n) ==
    \/ IncludesThrows(IndicesOf(hl))
    \/ \E i \in 0..(n - 1) :
          /\ IsHighlighted(hl, i)
          /\ (IsNullish(Get(hl, "colors")) \/ IsNullish(Get(hl, "labels")))

ArrayBoxFirst(values, hl, index) ==
    LET hi == HighlightIndex(hl, index)
        on == IsHighlighted(hl, index)
    IN [index |-> index,
        value |-> values.v[index + 1],
        active |-> on,
        color |-> IF on /\ hi # -1 THEN OrElse(At(Get(hl, "colors"), hi), Blue) ELSE Green,
        label |-> IF on /\ hi # -1 THEN At(Get(hl, "labels"), hi) ELSE NullStr]

\* data.highlights?.indices?.length === 2, then values[indices[0]], values[indices[1]]
ComparisonInfo(values, hl) ==
    LET ind == IndicesOf(hl)
    IN IF IsArray(ind) /\ Len(ind.v) = 2
       THEN [shown |-> TRUE, left |-> At(values, ind.v[1]), right |-> At(values, ind.v[2])]
       ELSE [shown |-> FALSE]

ArrayVisualizerFirst(data) ==
    IF ~Truthy(data) \/ ~Truthy(Get(data, "values")) THEN Nothing("array")
    ELSE LET values == Get(data, "values")
             hl == Get(data, "highlights")
         IN IF ~IsArray(values) THEN Throw("array")
            ELSE IF Len(values.v) = 0 THEN Nothing("array")
            ELSE IF UnguardedThrows(hl, Len(values.v)) THEN Throw("array")
            ELSE [comp |-> "array", kind |-> "ok",
                  boxes |-> [k \in 1..Len(values.v) |-> ArrayBoxFirst(values, hl, k - 1)],
                  comparison |-> ComparisonInfo(values, hl)]

\* the style object of an array-box: { backgroundColor, borderColor } in the
\* second variant, { backgroundColor } in the first; no other property is set
BoxStyle(variant, box) ==
    IF variant = "ArrayVisualizerSecond"
    THEN [t |-> "obj", backgroundColor |-> box.color, borderColor |-> box.color]
    ELSE [t |-> "obj", backgroundColor |-> box.color]
\* style.height of an array-box
BoxHeight(variant, box) == Get(BoxStyle(variant, box), "height")

(***************************************************************************)
(* StackVisualizer ({ data, highlights = {} }) and                         *)
(* QueueVisualizer ({ data, highlights = {} })                             *)
(***************************************************************************)
\* data?.values || (Array.isArray(data) ? data : [])
ValuesOf(data) ==
    IF ~IsNullish(data) /\ Truthy(Get(data, "values")) THEN Get(data, "values")
    ELSE IF IsArray(data) THEN data ELSE List(<<>>)

\* a default parameter replaces undefined only
DefaultParam(h, d) == IF h = Undef THEN d ELSE h

\* highlights.indices?.includes(i): reading .indices of null throws
PropThrows(hl) == hl = Null \/ IncludesThrows(IndicesOf(hl))

\* isHighlighted ? highlights.colors?.[indexOf] : fallback  (no default after the lookup)
PropColor(hl, i, fallback) ==
    IF ~IsHighlighted(hl, i) THEN fallback
    ELSE IF IsNullish(Get(hl, "colors")) THEN UndefStr
    ELSE At(Get(hl, "colors"), HighlightIndex(hl, i))
PropLabel(hl, i, fallback) ==
    IF ~IsHighlighted(hl, i) THEN fallback
    ELSE IF IsNullish(Get(hl, "labels")) THEN UndefStr
    ELSE At(Get(hl, "labels"), HighlightIndex(hl, i))

StackElement(values, hl, visualIndex) ==
    LET actualIndex == Len(values.v) - 1 - visualIndex
    IN [index |-> actualIndex,
        value |-> values.v[actualIndex + 1],
        color |-> PropColor(hl, actualIndex, Green),
        label |-> PropLabel(hl, actualIndex, ""),
        top |-> actualIndex = Len(values.v) - 1]

StackVisualizer(data, highlightsProp) ==
    LET values == ValuesOf(data)
        hl == DefaultParam(highlightsProp, EmptyObj)
    IN IF ~IsArray(values) THEN Throw("stack")
       ELSE IF Len(values.v) = 0 THEN [comp |-> "stack", kind |-> "empty"]
       ELSE IF PropThrows(hl) THEN Throw("stack")
       ELSE [comp |-> "stack", kind |-> "ok",
             elements |-> [k \in 1..Len(values.v) |-> StackElement(values, hl, k - 1)],
             base |-> "BOTTOM"]

QueueElement(values, hl, index) ==
    [index |-> index,
     value |-> values.v[index + 1],
     color |-> PropColor(hl, index, Green),
     label |-> PropLabel(hl, index, ""),
     front |-> index = 0,
     rear |-> index = Len(values.v) - 1]

\* the renderer without its empty-queue branch
QueueVisualizerNoEmptyBranch(data, highlightsProp) ==
    LET values == ValuesOf(data)
        hl == DefaultParam(highlightsProp, EmptyObj)
    IN IF ~IsArray(values) THEN Throw("queue")
       ELSE IF PropThrows(hl) THEN Throw("queue")
       ELSE [comp |-> "queue", kind |-> "ok",
             header |-> <<"FRONT", "REAR">>,
             elements |-> [k \in 1..Len(values.v) |-> QueueElement(values, hl, k - 1)]]

QueueVisualizer(data, highlightsProp) ==
    LET values == ValuesOf(data)
        hl == DefaultParam(highlightsProp, EmptyObj)
    IN IF ~IsArray(values) THEN Throw("queue")
       ELSE IF Len(values.v) = 0 THEN [comp |-> "queue", kind |-> "empty"]
       ELSE IF PropThrows(hl) THEN Throw("queue")
       ELSE [comp |-> "queue", kind |-> "ok",
             header |-> <<"FRONT", "REAR">>,
             elements |-> [k \in 1..Len(values.v) |-> QueueElement(values, hl, k - 1)]]

(***************************************************************************)
(* LinkedListVisualizer ({ data }) over data.values                        *)
(***************************************************************************)
LinkedListNode(values, hl, index) ==
    LET hi == HighlightIndex(hl, index)
        on == IsHighlighted(hl, index)
    IN [index |-> index,
        value |-> values.v[index + 1],
        color |-> IF on THEN OrElse(At(Get(hl, "colors"), hi), Blue) ELSE Green,
        label |-> IF on THEN At(Get(hl, "labels"), hi) ELSE NullStr,
        arrow |-> index < Len(values.v) - 1]

LinkedListVisualizer(data) ==
    IF ~Truthy(data) \/ ~Truthy(Get(data, "values")) THEN Nothing("linkedlist")
    ELSE LET values == Get(data, "values")
             hl == Get(data, "highlights")
         IN IF ~IsArray(values) THEN Throw("linkedlist")
            ELSE IF Len(values.v) = 0 THEN Nothing("linkedlist")
            ELSE IF UnguardedThrows(hl, Len(values.v)) THEN Throw("linkedlist")
            ELSE [comp |-> "linkedlist", kind |-> "ok",
                  nodes |-> [k \in 1..Len(values.v) |-> LinkedListNode(values, hl, k - 1)],
                  nulls |-> 1]

(***************************************************************************)
(* Second variants of the stack, queue and linked-list renderers           *)
(* ({ data }): the frame format, with name labels and per-node flags.      *)
(***************************************************************************)
StackElementSecond(values, hl, index) ==
    LET actualIndex == Len(values.v) - 1 - index
    IN [index |-> actualIndex,
        value |-> values.v[actualIndex + 1],
        highlighted |-> IsHighlighted(hl, actualIndex),
        top |-> actualIndex = Len(values.v) - 1]

StackVisualizerSecond(data) ==
    IF ~Truthy(data) \/ ~Truthy(Get(data, "values")) THEN Nothing("stack")
    ELSE LET values == Get(data, "values")
             hl == Get(data, "highlights")
         IN IF ~IsArray(values) THEN Throw("stack")
            ELSE IF Len(values.v) > 0 /\ IncludesThrows(IndicesOf(hl)) THEN Throw("stack")
            ELSE [comp |-> "stack", kind |-> "ok",
                  elements |-> [k \in 1..Len(values.v) |-> StackElementSecond(values, hl, k - 1)],
                  emptyNote |-> Len(values.v) = 0]

\* index === data.front_index
SameIndex(index, field) == field.t = "num" /\ field.v = index

QueueElementSecond(data, values, hl, index) ==
    [index |-> index,
     value |-> values.v[index + 1],
     highlighted |-> IsHighlighted(hl, index),
     front |-> SameIndex(index, Get(data, "front_index")),
     rear |-> SameIndex(index, Get(data, "rear_index"))]

QueueVisualizerSecond(data) ==
    IF ~Truthy(data) \/ ~Truthy(Get(data, "values")) THEN Nothing("queue")
    ELSE LET values == Get(data, "values")
             hl == Get(data, "highlights")
         IN IF ~IsArray(values) THEN Throw("queue")
            ELSE IF Len(values.v) > 0 /\ IncludesThrows(IndicesOf(hl)) THEN Throw("queue")
            ELSE [comp |-> "queue", kind |-> "ok",
                  label |-> Get(data, "name"),
                  elements |-> [k \in 1..Len(values.v) |-> QueueElementSecond(data, values, hl, k - 1)],
                  emptyNote |-> Len(values.v) = 0]

\* node.highlighted ? (node.color === 'default' ? '#4f9bff' : node.color)
\*                  : (node.color === 'default' ? '#3498db' : node.color)
FlagColor(node) ==
    IF node.color = "default" THEN (IF node.highlighted THEN LightBlue ELSE Blue) ELSE node.color

LinkedListNodeSecond(nodes, index) ==
    LET node == nodes.v[index + 1]
    IN [index |-> index,
        value |-> node.value,
        color |-> FlagColor(node),
        highlighted |-> node.highlighted,
        head |-> index = 0,
        tail |-> index = Len(nodes.v) - 1,
        arrow |-> ~IsNullish(node.next),
        null |-> IsNullish(node.next)]

LinkedListVisualizerSecond(data) ==
    IF ~Truthy(data) \/ ~Truthy(Get(data, "nodes")) THEN Nothing("linkedlist")
    ELSE LET nodes == Get(data, "nodes")
         IN IF ~IsArray(nodes) THEN Throw("linkedlist")
            ELSE IF Len(nodes.v) = 0 THEN Nothing("linkedlist")
            ELSE [comp |-> "linkedlist", kind |-> "ok",
                  nodes |-> [k \in 1..Len(nodes.v) |-> LinkedListNodeSecond(nodes, k - 1)]]

(***************************************************************************)
(* Geometry and edges shared by TreeVisualizer (both variants) and         *)
(* GraphVisualizer.                                                        *)
(***************************************************************************)
MARGIN == 60

SetMax(S) == CHOOSE m \in S : \A x \in S : x <= m
\* the bound taken from the first node instead of the maximum
FirstX(nodes) == nodes.v[1].x + MARGIN

\* Math.max(...data.nodes.map(n => n.x)) + margin
MaxX(nodes) == SetMax({nodes.v[k].x : k \in 1..Len(nodes.v)}) + MARGIN
MaxY(nodes) == SetMax({nodes.v[k].y : k \in 1..Len(nodes.v)}) + MARGIN

\* new Map(data.nodes.map(node => [node.id, node])).get(id): the last node of that id
HasNode(nodes, id) == \E k \in 1..Len(nodes.v) : nodes.v[k].id = id
ChildEdgeNoLookup(nodes, ref) == ref.t = "num"

\* node.left_child_id !== null && !== undefined, and nodeMap.get(..) found
ChildEdge(nodes, ref) == ref.t = "num" /\ HasNode(nodes, ref.v)

RECURSIVE TreeEdges(_, _, _)
\* the lines pushed for nodes k..n, left before right; on[k] tells a highlighted parent
TreeEdges(nodes, k, on) ==
    IF k > Len(nodes.v) THEN <<>>
    ELSE LET node == nodes.v[k]
             left == IF ChildEdge(nodes, node.left_child_id)
                     THEN <<[from |-> node.id, side |-> "left", to |-> node.left_child_id.v,
                             highlighted |-> on[k]]>>
                     ELSE <<>>
             right == IF ChildEdge(nodes, node.right_child_id)
                      THEN <<[from |-> node.id, side |-> "right", to |-> node.right_child_id.v,
                              highlighted |-> on[k]]>>
                      ELSE <<>>
         IN left \o right \o TreeEdges(nodes, k + 1, on)

(***************************************************************************)
(* TreeVisualizer ({ data }) with data.highlights = {node_ids, colors,     *)
(* labels}                                                                 *)
(***************************************************************************)
TreeHighlights(data) ==
    IF Truthy(Get(data, "highlights")) THEN Get(data, "highlights")
    ELSE [t |-> "obj", node_ids |-> List(<<>>), colors |-> List(<<>>), labels |-> List(<<>>)]

\* the position whose entry highlightMap holds for nodeId: forEach sets in order,
\* so a later entry of the same id replaces an earlier one
LastIndexOf(lst, i) ==
    (CHOOSE k \in 1..Len(lst.v) : lst.v[k] = i /\ \A j \in (k + 1)..Len(lst.v) : lst.v[j] # i) - 1

NodeIdsOf(hl) == IF hl.t = "obj" THEN Get(hl, "node_ids") ELSE Undef
HighlightMapHas(hl, id) == LET ids == NodeIdsOf(hl) IN IsArray(ids) /\ Includes(ids, id)
HighlightMapGet(hl, id) ==
    LET index == LastIndexOf(NodeIdsOf(hl), id)
    IN [color |-> IF IsNullish(Get(hl, "colors")) THEN Orange
                  ELSE OrElse(At(Get(hl, "colors"), index), Orange),
        label |-> IF IsNullish(Get(hl, "labels")) THEN NullStr
                  ELSE OrElse(At(Get(hl, "labels"), index), NullStr)]

TreeNode(hl, node) ==
    LET on == HighlightMapHas(hl, node.id)
    IN [id |-> node.id, value |-> node.value, x |-> node.x, y |-> node.y,
        highlighted |-> on,
        color |-> IF on THEN HighlightMapGet(hl, node.id).color ELSE Blue,
        label |-> IF on THEN HighlightMapGet(hl, node.id).label ELSE NullStr]

TreeVisualizer(data) ==
    IF ~Truthy(data) \/ ~Truthy(Get(data, "nodes")) THEN Nothing("tree")
    ELSE LET nodes == Get(data, "nodes")
             hl == TreeHighlights(data)
         IN IF ~IsArray(nodes) THEN Throw("tree")
            ELSE IF Len(nodes.v) = 0 THEN Nothing("tree")
            ELSE IF Truthy(NodeIdsOf(hl)) /\ ~IsArray(NodeIdsOf(hl)) THEN Throw("tree")
            ELSE [comp |-> "tree", kind |-> "ok",
                  width |-> MaxX(nodes), height |-> MaxY(nodes),
                  edges |-> TreeEdges(nodes, 1, [k \in 1..Len(nodes.v) |-> HighlightMapHas(hl, nodes.v[k].id)]),
                  nodes |-> [k \in 1..Len(nodes.v) |-> TreeNode(hl, nodes.v[k])]]

(***************************************************************************)
(* TreeVisualizer, second variant: per-node highlighted flag and color     *)
(***************************************************************************)
TreeNodeSecond(node) ==
    [id |-> node.id, value |-> node.value, x |-> node.x, y |-> node.y,
     highlighted |-> node.highlighted, color |-> FlagColor(node)]

TreeVisualizerSecond(data) ==
    IF ~Truthy(data) \/ ~Truthy(Get(data, "nodes")) THEN Nothing("tree")
    ELSE LET nodes == Get(data, "nodes")
         IN IF ~IsArray(nodes) THEN Throw("tree")
            ELSE IF Len(nodes.v) = 0 THEN Nothing("tree")
            ELSE [comp |-> "tree", kind |-> "ok",
                  width |-> MaxX(nodes), height |-> MaxY(nodes),
                  edges |-> TreeEdges(nodes, 1, [k \in 1..Len(nodes.v) |-> nodes.v[k].highlighted]),
                  nodes |-> [k \in 1..Len(nodes.v) |-> TreeNodeSecond(nodes.v[k])]]

(***************************************************************************)
(* GraphVisualizer ({ data })                                              *)
(***************************************************************************)
RECURSIVE GraphEdges(_, _, _)
\* data.edges?.map(...): an edge whose from_node or to_node finds no node is null
GraphEdges(nodes, edges, k) ==
    IF k > Len(edges) THEN <<>>
    ELSE LET edge == edges[k]
         IN (IF HasNode(nodes, edge.from_node) /\ HasNode(nodes, edge.to_node)
             THEN <<[index |-> k - 1, from |-> edge.from_node, to |-> edge.to_node,
                     directed |-> edge.directed, highlighted |-> edge.highlighted,
                     weight |-> edge.weight]>>
             ELSE <<>>) \o GraphEdges(nodes, edges, k + 1)

GraphNode(node) ==
    [id |-> node.id, label |-> node.label, x |-> node.x, y |-> node.y,
     highlighted |-> node.highlighted, color |-> FlagColor(node)]

GraphVisualizer(data) ==
    IF ~Truthy(data) \/ ~Truthy(Get(data, "nodes")) THEN Nothing("graph")
    ELSE LET nodes == Get(data, "nodes")
             edges == Get(data, "edges")
         IN IF ~IsArray(nodes) THEN Throw("graph")
            ELSE IF Len(nodes.v) = 0 THEN Nothing("graph")
            ELSE IF ~IsNullish(edges) /\ ~IsArray(edges) THEN Throw("graph")
            ELSE [comp |-> "graph", kind |-> "ok",
                  width |-> MaxX(nodes), height |-> MaxY(nodes),
                  edges |-> IF IsArray(edges) THEN GraphEdges(nodes, edges.v, 1) ELSE <<>>,
                  nodes |-> [k \in 1..Len(nodes.v) |-> GraphNode(nodes.v[k])]]

(***************************************************************************)
(* The import of each renderer resolves to one of its two variants.  A     *)
(* build is "props" (the variants taking data and a highlights prop or     *)
(* highlight lists) or "flags" (the frame-format variants).                *)
(***************************************************************************)
Builds == {"props", "flags"}

ArrayVisualizer(build, d, h) ==
    IF build = "props" THEN ArrayVisualizerSecond(d, h) ELSE ArrayVisualizerFirst(d)
LinkedListVisualizerOf(build, d) ==
    IF build = "props" THEN LinkedListVisualizer(d) ELSE LinkedListVisualizerSecond(d)
StackVisualizerOf(build, d, h) ==
    IF build = "props" THEN StackVisualizer(d, h) ELSE StackVisualizerSecond(d)
QueueVisualizerOf(build, d, h) ==
    IF build = "props" THEN QueueVisualizer(d, h) ELSE QueueVisualizerSecond(d)
TreeVisualizerOf(build, d) ==
    IF build = "props" THEN TreeVisualizer(d) ELSE TreeVisualizerSecond(d)

(***************************************************************************)
(* VariablesPanel and VisualizerFactory                                    *)
(***************************************************************************)
VariablesPanel(variables) ==
    IF ~Truthy(variables) THEN Nothing("variables")
    ELSE IF ~IsArray(variables) THEN Throw("variables")
    ELSE IF Len(variables.v) = 0 THEN Nothing("variables")
    ELSE [comp |-> "variables", kind |-> "ok", items |-> variables.v]

\* the fixed order of the structures-grid
Categories == <<"arrays", "trees", "graphs", "linked_lists", "stacks", "queues">>

RenderStructure(build, category, d) ==
    CASE category = "arrays" -> ArrayVisualizer(build, d, Undef)
      [] category = "trees" -> TreeVisualizerOf(build, d)
      [] category = "graphs" -> GraphVisualizer(d)
      [] category = "linked_lists" -> LinkedListVisualizerOf(build, d)
      [] category = "stacks" -> StackVisualizerOf(build, d, Undef)
      [] category = "queues" -> QueueVisualizerOf(build, d, Undef)

\* frame.<category>?.map(...): nothing for null/undefined, a throw on a non-list
CategoryThrows(frame, category) ==
    LET c == Get(frame, category) IN ~IsNullish(c) /\ ~IsArray(c)
CategoryChildren(build, frame, category) ==
    LET c == Get(frame, category)
    IN IF IsArray(c) THEN [k \in 1..Len(c.v) |-> RenderStructure(build, category, c.v[k])]
       ELSE <<>>

RECURSIVE GridChildren(_, _, _)
GridChildren(build, frame, k) ==
    IF k > Len(Categories) THEN <<>>
    ELSE CategoryChildren(build, frame, Categories[k]) \o GridChildren(build, frame, k + 1)

AnyThrow(children) == \E k \in 1..Len(children) : children[k].kind = "throw"

\* An exception thrown by a child component while React renders the tree is
\* not caught anywhere in these components: the whole tree fails.
VisualizerFactory(build, frame, currentFrameIndex, totalFrames) ==
    IF ~Truthy(frame) THEN [comp |-> "factory", kind |-> "placeholder"]
    ELSE IF \E k \in 1..Len(Categories) : CategoryThrows(frame, Categories[k])
    THEN Throw("factory")
    ELSE LET children == GridChildren(build, frame, 1)
             panel == VariablesPanel(Get(frame, "variables"))
         IN IF AnyThrow(children) \/ panel.kind = "throw" THEN Throw("factory")
            ELSE [comp |-> "factory", kind |-> "ok",
                  counter |-> [k |-> currentFrameIndex + 1, n |-> totalFrames],
                  children |-> children,
                  variables |-> panel]

(***************************************************************************)
(* Visualizer ({ module, data, highlights = [], controlsProps })           *)
(***************************************************************************)
\* controlsProps?.currentStep || 0 and controlsProps?.totalSteps || 1
CurrentStepOr0(controlsProps) ==
    IF IsNullish(controlsProps) THEN 0 ELSE controlsProps.currentStep
TotalStepsOr1(controlsProps) ==
    IF IsNullish(controlsProps) \/ controlsProps.totalSteps = 0 THEN 1
    ELSE controlsProps.totalSteps

\* renderVisualization with the default case missing: the switch falls through
\* and nothing is returned
renderVisualizationNoDefault(build, module, d, h, controlsProps) ==
    CASE module \in {"array", "sorting", "searching"} -> ArrayVisualizer(build, d, h)
      [] module = "linkedlist" -> LinkedListVisualizerOf(build, d)
      [] module = "stack" -> StackVisualizerOf(build, d, h)
      [] module = "bitmask" -> Throw("bitmask")
      [] module = "binaryheap" -> Throw("binaryheap")
      [] module = "trees" ->
            VisualizerFactory(build, d, CurrentStepOr0(controlsProps), TotalStepsOr1(controlsProps))
      [] OTHER -> Nothing("unsupported")

renderVisualization(build, module, d, h, controlsProps) ==
    CASE module \in {"array", "sorting", "searching"} -> ArrayVisualizer(build, d, h)
      [] module = "linkedlist" -> LinkedListVisualizerOf(build, d)
      [] module = "stack" -> StackVisualizerOf(build, d, h)
      \* BitmaskVisualizer and HeapVisualizer are not imported: a ReferenceError
      [] module = "bitmask" -> Throw("bitmask")
      [] module = "binaryheap" -> Throw("binaryheap")
      [] module = "trees" ->
            VisualizerFactory(build, d, CurrentStepOr0(controlsProps), TotalStepsOr1(controlsProps))
      [] OTHER -> [comp |-> "unsupported", kind |-> "unsupported", module |-> module]

\* Visualizer without the early return for absent data
VisualizerNoGuard(build, module, d, highlightsProp, controlsProps) ==
    LET inner == renderVisualization(build, module, d, DefaultParam(highlightsProp, List(<<>>)),
                                     controlsProps)
    IN IF inner.kind = "throw" THEN Throw("visualizer")
       ELSE [comp |-> "visualizer", kind |-> "ok", inner |-> inner,
             controls |-> Truthy(controlsProps)]

Visualizer(build, module, d, highlightsProp, controlsProps) ==
    IF ~Truthy(d)
    THEN [comp |-> "visualizer", kind |-> "empty-viz", controls |-> Truthy(controlsProps)]
    ELSE LET inner == renderVisualization(build, module, d, DefaultParam(highlightsProp, List(<<>>)),
                                          controlsProps)
         IN IF inner.kind = "throw" THEN Throw("visualizer")
            ELSE [comp |-> "visualizer", kind |-> "ok", inner |-> inner,
                  controls |-> Truthy(controlsProps)]

(***************************************************************************)
(* Input domains: the snapshots and props the renderers are mounted with.  *)
(***************************************************************************)
WithHl(v, h) ==
    IF h = Undef THEN [t |-> "obj", values |-> List(v), name |-> "a"]
    ELSE [t |-> "obj", values |-> List(v), name |-> "a", highlights |-> h]

ArrayObjects == {WithHl(v, h) : v \in ValueLists, h \in OwnHighlights}
\* a snapshot that carries its own comparison text
Str(s) == [t |-> "str", s |-> s]
ComparedArray ==
    [t |-> "obj", values |-> List(<<7, 5>>), name |-> "a", comparison |-> Str("7 > 5")]
ArrayPayloads ==
    ArrayObjects \cup {List(v) : v \in ValueLists} \cup {Undef, EmptyObj, ComparedArray}
\* snapshots whose own highlights take every shape
LinearSnapshots == {WithHl(v, h) : v \in ValueLists, h \in Highlights} \cup {Undef, EmptyObj}
\* what the props-style stack and queue renderers are given as data
LinearPayloads ==
    {WithHl(v, Undef) : v \in ValueLists} \cup {List(v) : v \in ValueLists} \cup {Undef}

QueueSnapshots ==
    {[t |-> "obj", values |-> List(v), name |-> "q", front_index |-> f, rear_index |-> r,
      highlights |-> h] :
        v \in ValueLists, f \in {Undef, Num(0)}, r \in {Undef, Num(0), Num(MaxLen - 1)},
        h \in {Undef, List(<<0>>), HlObj(List(<<0>>), Undef, Undef)}}

ListNode(value, next, on) ==
    [value |-> value, next |-> next, highlighted |-> on, color |-> "default"]
NextFields == {Null, Undef, Num(1)}
NodeLists ==
    UNION {{[k \in 1..n |-> ListNode(AllValues[k], nx[k], k = 1)] : nx \in [1..n -> NextFields]} :
             n \in 0..MaxLen}
ListSnapshots == {[t |-> "obj", nodes |-> List(ns), name |-> "l", type |-> "singly"] : ns \in NodeLists}

Coords == {50 * c : c \in (0 - 1)..MaxCoord}
TreeNodeRec(id, x, y, l, r) ==
    [id |-> id, value |-> AllValues[id + 1], label |-> "n", x |-> x, y |-> y,
     left_child_id |-> l, right_child_id |-> r, highlighted |-> id = 0, color |-> "default"]
\* node sets that vary in their coordinates
GeomNodes ==
    UNION {{[k \in 1..n |-> TreeNodeRec(k - 1, xs[k], ys[k], Null, Null)] :
              xs \in [1..n -> Coords], ys \in [1..n -> Coords]} : n \in 0..MaxStructs}
\* node sets that vary in their child references (MaxId + 1 names no node)
ChildRefs == {Null, Undef} \cup {Num(i) : i \in 0..(MaxId + 1)}
EdgeNodes ==
    {<<TreeNodeRec(0, 100, 50, l, r), TreeNodeRec(1, 50, 100, Null, l2)>> :
        l \in ChildRefs, r \in ChildRefs, l2 \in ChildRefs}
TwoNodes == <<TreeNodeRec(0, 100, 50, Num(1), Null), TreeNodeRec(1, 50, 100, Null, Null)>>
OneNode == <<TreeNodeRec(0, 100, 50, Null, Null)>>
TreeOf(ns, h) ==
    IF h = Undef THEN [t |-> "obj", nodes |-> List(ns), name |-> "t", type |-> "bst"]
    ELSE [t |-> "obj", nodes |-> List(ns), name |-> "t", type |-> "bst", highlights |-> h]
TreeSnapshots ==
    {TreeOf(ns, Undef) : ns \in GeomNodes \cup EdgeNodes}
      \cup {TreeOf(TwoNodes, h) : h \in NodeHighlights}
      \cup {TreeOf(OneNode, h) : h \in NodeHighlights} \cup {Undef, EmptyObj}

GraphEdge(from, to) ==
    [from_node |-> from, to_node |-> to, directed |-> from = 0, highlighted |-> FALSE,
     weight |-> IF to = 0 THEN Num(4) ELSE Null]
EdgeLists == SeqsUpTo({GraphEdge(a, b) : a \in 0..(MaxId + 1), b \in 0..(MaxId + 1)}, 2)
GraphOf(ns, es) ==
    IF es = Undef THEN [t |-> "obj", nodes |-> List(ns), name |-> "g", type |-> "directed"]
    ELSE [t |-> "obj", nodes |-> List(ns), name |-> "g", type |-> "directed", edges |-> es]
GraphSnapshots ==
    {GraphOf(ns, Undef) : ns \in GeomNodes}
      \cup {GraphOf(TwoNodes, List(es)) : es \in EdgeLists} \cup {Undef, GraphOf(TwoNodes, Num(5))}

(***************************************************************************)
(* Composite frames: per category absent, empty or a list of structures;   *)
(* at most MaxStructs structures in a frame.  A structure is well formed,  *)
(* or malformed in its highlights, or empty.                               *)
(***************************************************************************)
\* every sample carries the fields both variants of its renderer read
GoodArray == WithHl(<<7, 5>>, HlObj(List(<<0>>), List(<<"red">>), List(<<"mid">>)))
BadArray == WithHl(<<7, 5>>, HlObj(List(<<0>>), Undef, Undef))
GoodTree == TreeOf(TwoNodes, Undef)
EmptyTree == TreeOf(<<>>, Undef)
GoodGraph == GraphOf(TwoNodes, List(<<GraphEdge(0, 1)>>))
GoodList ==
    [t |-> "obj", values |-> List(<<7, 5>>), name |-> "l", type |-> "singly",
     nodes |-> List(<<ListNode(7, Num(1), FALSE), ListNode(5, Null, FALSE)>>)]
BadList ==
    [t |-> "obj", values |-> List(<<7, 5>>), name |-> "l", type |-> "singly",
     nodes |-> List(<<ListNode(7, Num(1), FALSE), ListNode(5, Null, FALSE)>>),
     highlights |-> HlObj(Num(5), Undef, Undef)]
GoodStack == WithHl(<<7, 5>>, Undef)
GoodQueue ==
    [t |-> "obj", values |-> List(<<7, 5>>), name |-> "q", front_index |-> Num(0),
     rear_index |-> Num(1)]
Variable == [name |-> "i", value |-> 0, type |-> "int"]

Samples(category) ==
    CASE category = "arrays" -> {GoodArray, BadArray}
      [] category = "trees" -> {GoodTree, EmptyTree}
      [] category = "graphs" -> {GoodGraph}
      [] category = "linked_lists" -> {GoodList, BadList}
      [] category = "stacks" -> {GoodStack}
      [] category = "queues" -> {GoodQueue}

CategoryValues(category) == {Undef} \cup {List(s) : s \in SeqsUpTo(Samples(category), MaxStructs)}
CountOf(c) == IF IsArray(c) THEN Len(c.v) ELSE 0
StructCount(f) ==
    CountOf(f.arrays) + CountOf(f.trees) + CountOf(f.graphs) + CountOf(f.linked_lists)
      + CountOf(f.stacks) + CountOf(f.queues)
Frames ==
    {f \in [t : {"obj"}, description : {"step"},
            arrays : CategoryValues("arrays"), trees : CategoryValues("trees"),
            graphs : CategoryValues("graphs"), linked_lists : CategoryValues("linked_lists"),
            stacks : CategoryValues("stacks"), queues : CategoryValues("queues"),
            variables : {Undef, List(<<>>), List(<<Variable>>)}] :
        StructCount(f) <= MaxStructs}

FrameOf(a, tr) ==
    [t |-> "obj", description |-> "step", arrays |-> a, trees |-> tr, graphs |-> Undef,
     linked_lists |-> Undef, stacks |-> List(<<>>), queues |-> Undef, variables |-> Undef]

\* the tags of the home page's MODULES, the cases of the switch, and a foreign tag
ModuleTags ==
    {"sorting", "searching", "trees", "linkedlist", "stack", "queue", "custom",
     "array", "bitmask", "binaryheap", "unknown_type"}

\* what a page hands to Visualizer as data
Payloads ==
    {Undef, Null, Num(0), EmptyObj, List(<<>>), List(<<7, 5>>), GoodArray, GoodList,
     FrameOf(List(<<GoodArray>>), List(<<GoodTree>>)), FrameOf(Undef, List(<<GoodTree>>)),
     FrameOf(List(<<BadArray>>), List(<<GoodTree>>))}
PropHighlights == {Undef, List(<<1>>), HlObj(List(<<1, 0>>), List(<<"red">>), Undef)}

(***************************************************************************)
(* State: the component mounted, the variant set of the build, the props   *)
(* its caller supplied and the visual description it rendered ("pending"   *)
(* before the first render pass).                                          *)
(***************************************************************************)
VARIABLES comp, build, module, data, highlights, controlsProps, view

vars == <<comp, build, module, data, highlights, controlsProps, view>>

Pending == [comp |-> "none", kind |-> "pending"]

Mount(c, B, M, D, H, C) ==
    /\ comp = c
    /\ build \in B
    /\ module \in M
    /\ data \in D
    /\ highlights \in H
    /\ controlsProps \in C

FirstCursor == [t |-> "obj", currentStep |-> 0, totalSteps |-> 1]
\* the cursor at mount: none, or the first step of a run of n steps
StartCursors == {Undef} \cup {[t |-> "obj", currentStep |-> 0, totalSteps |-> n] : n \in 0..MaxStep}

Init ==
    /\ view = Pending
    /\ \/ Mount("Visualizer", Builds, ModuleTags, Payloads, PropHighlights, StartCursors)
       \/ Mount("VisualizerFactory", Builds, {""}, Frames \cup {Undef}, {Undef}, {FirstCursor})
       \/ Mount("ArrayVisualizerFirst", {"flags"}, {""}, LinearSnapshots, {Undef}, {Undef})
       \/ Mount("ArrayVisualizerSecond", {"props"}, {""}, ArrayPayloads, Highlights, {Undef})
       \/ Mount("StackVisualizer", {"props"}, {""}, LinearPayloads, Highlights, {Undef})
       \/ Mount("StackVisualizerSecond", {"flags"}, {""}, LinearSnapshots, {Undef}, {Undef})
       \/ Mount("QueueVisualizer", {"props"}, {""}, LinearPayloads, Highlights, {Undef})
       \/ Mount("QueueVisualizerSecond", {"flags"}, {""}, QueueSnapshots \cup {Undef}, {Undef}, {Undef})
       \/ Mount("LinkedListVisualizer", {"props"}, {""}, LinearSnapshots, {Undef}, {Undef})
       \/ Mount("LinkedListVisualizerSecond", {"flags"}, {""}, ListSnapshots \cup {Undef}, {Undef}, {Undef})
       \/ Mount("TreeVisualizer", {"props"}, {""}, TreeSnapshots, {Undef}, {Undef})
       \/ Mount("TreeVisualizerSecond", {"flags"}, {""}, TreeSnapshots, {Undef}, {Undef})
       \/ Mount("GraphVisualizer", Builds, {""}, GraphSnapshots, {Undef}, {Undef})

\* The first render pass of each mounted component: the props stay, the view is
\* the component's output for them.
props == <<comp, build, module, data, highlights, controlsProps>>

RenderVisualizer ==
    /\ comp = "Visualizer"
    /\ view = Pending
    /\ view' = Visualizer(build, module, data, highlights, controlsProps)
    /\ UNCHANGED props

RenderVisualizerFactory ==
    /\ comp = "VisualizerFactory"
    /\ view = Pending
    /\ view' = VisualizerFactory(build, data, controlsProps.currentStep, controlsProps.totalSteps)
    /\ UNCHANGED props

RenderArrayVisualizerFirst ==
    /\ comp = "ArrayVisualizerFirst"
    /\ view = Pending
    /\ view' = ArrayVisualizerFirst(data)
    /\ UNCHANGED props

RenderArrayVisualizerSecond ==
    /\ comp = "ArrayVisualizerSecond"
    /\ view = Pending
    /\ view' = ArrayVisualizerSecond(data, highlights)
    /\ UNCHANGED props

RenderStackVisualizer ==
    /\ comp = "StackVisualizer"
    /\ view = Pending
    /\ view' = StackVisualizer(data, highlights)
    /\ UNCHANGED props

RenderStackVisualizerSecond ==
    /\ comp = "StackVisualizerSecond"
    /\ view = Pending
    /\ view' = StackVisualizerSecond(data)
    /\ UNCHANGED props

RenderQueueVisualizer ==
    /\ comp = "QueueVisualizer"
    /\ view = Pending
    /\ view' = QueueVisualizer(data, highlights)
    /\ UNCHANGED props

RenderQueueVisualizerSecond ==
    /\ comp = "QueueVisualizerSecond"
    /\ view = Pending
    /\ view' = QueueVisualizerSecond(data)
    /\ UNCHANGED props

RenderLinkedListVisualizer ==
    /\ comp = "LinkedListVisualizer"
    /\ view = Pending
    /\ view' = LinkedListVisualizer(data)
    /\ UNCHANGED props

RenderLinkedListVisualizerSecond ==
    /\ comp = "LinkedListVisualizerSecond"
    /\ view = Pending
    /\ view' = LinkedListVisualizerSecond(data)
    /\ UNCHANGED props

RenderTreeVisualizer ==
    /\ comp = "TreeVisualizer"
    /\ view = Pending
    /\ view' = TreeVisualizer(data)
    /\ UNCHANGED props

RenderTreeVisualizerSecond ==
    /\ comp = "TreeVisualizerSecond"
    /\ view = Pending
    /\ view' = TreeVisualizerSecond(data)
    /\ UNCHANGED props

RenderGraphVisualizer ==
    /\ comp = "GraphVisualizer"
    /\ view = Pending
    /\ view' = GraphVisualizer(data)
    /\ UNCHANGED props

\* the playback controller moves the cursor of a run and the page renders
\* Visualizer again with the new controlsProps
Seek ==
    /\ comp = "Visualizer"
    /\ view # Pending
    /\ controlsProps # Undef
    /\ \E c \in (0 - 1)..(MaxStep + 1) :
          /\ controlsProps' = [controlsProps EXCEPT !.currentStep = c]
          /\ view' = Visualizer(build, module, data, highlights, controlsProps')
    /\ UNCHANGED <<comp, build, module, data, highlights>>

Next ==
    \/ RenderVisualizer
    \/ RenderVisualizerFactory
    \/ RenderArrayVisualizerFirst
    \/ RenderArrayVisualizerSecond
    \/ RenderStackVisualizer
    \/ RenderStackVisualizerSecond
    \/ RenderQueueVisualizer
    \/ RenderQueueVisualizerSecond
    \/ RenderLinkedListVisualizer
    \/ RenderLinkedListVisualizerSecond
    \/ RenderTreeVisualizer
    \/ RenderTreeVisualizerSecond
    \/ RenderGraphVisualizer
    \/ Seek

Spec == Init /\ [][Next]_vars

(***************************************************************************)
(* A playback session: the page keeps the frames of a run and hands        *)
(* Visualizer one of them at each step, by reference; a frame may be shown *)
(* again after others.  data is the page's frame list, view keeps the      *)
(* first and the latest output per frame.                                  *)
(***************************************************************************)
MaxRenders == 2

ReverseSeq(s) == [k \in 1..Len(s) |-> s[Len(s) + 1 - k]]

\* values.reverse() on the caller's list itself: the receiver is reversed
ReversedInPlace(values) ==
    [a \in {"values", "stackElements"} |-> ReverseSeq(values)]

\* [...values].reverse(): the arrays the render holds afterwards, by name.
\* The spread allocates a copy and reverse() reverses its receiver in place.
ReversedCopy(values) ==
    LET spread == [a \in {"values", "stackElements"} |-> values]
    IN [spread EXCEPT !["stackElements"] = ReverseSeq(@)]

\* the frame object after StackVisualizer rendered it
StackFrameAfter(d) ==
    LET values == ValuesOf(d)
    IN IF ~IsArray(values) \/ Len(values.v) = 0 THEN d
       ELSE IF IsArray(d) THEN List(ReversedCopy(values.v)["values"])
       ELSE [d EXCEPT !.values = List(ReversedCopy(values.v)["values"])]

\* the frame object after the second StackVisualizer variant rendered it
StackFrameAfterSecond(d) ==
    IF ~Truthy(d) \/ ~Truthy(Get(d, "values")) \/ ~IsArray(Get(d, "values")) THEN d
    ELSE [d EXCEPT !.values = List(ReversedCopy(d.values.v)["values"])]

\* the frame object after a render pass; only the stack renderers call a
\* method that changes its receiver, the others read their props
FrameAfterRender(b, m, d) ==
    IF m = "stack"
    THEN (IF b = "props" THEN StackFrameAfter(d) ELSE StackFrameAfterSecond(d))
    ELSE d

ReplayFrames == {WithHl(v, Undef) : v \in ValueLists} \cup {List(v) : v \in ValueLists}
FrameLists == {fs \in SeqsUpTo(ReplayFrames, 2) : Len(fs) > 0}
CursorAt(i, n) == [t |-> "obj", currentStep |-> i, totalSteps |-> n]

InitReplay ==
    /\ comp = "Page"
    /\ build \in Builds
    /\ module \in {"stack", "sorting"}
    /\ data \in FrameLists
    /\ highlights \in {Undef, List(<<0>>)}
    /\ controlsProps = CursorAt(0, Len(data))
    /\ view = [comp |-> "page", kind |-> "replay", at |-> 0, prev |-> 0, last |-> Pending,
               first |-> [i \in 1..Len(data) |-> Pending],
               times |-> [i \in 1..Len(data) |-> 0]]

\* the page steps to frame i (possibly the current one) and Visualizer renders it
ShowFrame ==
    \E i \in 1..Len(data) :
       /\ view.times[i] < MaxRenders
       /\ controlsProps' = CursorAt(i - 1, Len(data))
       /\ LET out == Visualizer(build, module, data[i], highlights, controlsProps')
          IN view' = [view EXCEPT !.at = i, !.prev = view.at, !.last = out,
                                  !.first[i] = IF @ = Pending THEN out ELSE @,
                                  !.times[i] = @ + 1]
       /\ data' = [data EXCEPT ![i] = FrameAfterRender(build, module, data[i])]
       /\ UNCHANGED <<comp, build, module, highlights>>

NextReplay == ShowFrame

SpecReplay == InitReplay /\ [][NextReplay]_vars

(***************************************************************************)
(* Properties.                                                             *)
(***************************************************************************)
Mounted(c) == comp = c /\ view # Pending

\* the (color, label) a canonical annotation h gives identifier i
AnnotationOf(h, i) ==
    [color |-> IF IsNullish(Get(h, "colors")) THEN Blue
               ELSE OrElse(At(Get(h, "colors"), HighlightIndex(h, i)), Blue),
     label |-> IF IsNullish(Get(h, "labels")) THEN NullStr
               ELSE OrElse(At(Get(h, "labels"), HighlightIndex(h, i)), NullStr)]

\* an override in one of the documented shapes: absent, a flat list, or an
\* object whose indices are a list
DocumentedShape(h) == h = Undef \/ IsArray(h) \/ (h.t = "obj" /\ IsArray(IndicesOf(h)))

\* C1: the array renderer given an object snapshot with its own highlights and
\* a highlights prop renders with an annotation in which every identifier the
\* override annotates has the override's color and label, and every identifier
\* only the snapshot's highlights annotate keeps the snapshot's color and label.
C1_OverrideLayeredOnDefault ==
    (Mounted("ArrayVisualizerSecond") /\ view.kind = "ok" /\ data.t = "obj"
       /\ DocumentedShape(highlights))
    => LET own == normalizeHighlights(Get(data, "highlights"))
           over == normalizeHighlights(highlights)
       IN \A i \in 0..MaxId :
            /\ IsHighlighted(over, i)
                 => /\ IsHighlighted(view.annotation, i)
                    /\ AnnotationOf(view.annotation, i) = AnnotationOf(over, i)
            /\ (~IsHighlighted(over, i) /\ IsHighlighted(own, i))
                 => /\ IsHighlighted(view.annotation, i)
                    /\ AnnotationOf(view.annotation, i) = AnnotationOf(own, i)

\* The parallel-list highlight a renderer consumes, its identifier list and
\* the elements it rendered.
ConsumedHighlight ==
    CASE comp \in {"ArrayVisualizerSecond", "StackVisualizer", "QueueVisualizer"} -> highlights
      [] OTHER -> Get(data, "highlights")
IdKey == IF comp = "TreeVisualizer" THEN "node_ids" ELSE "indices"
RenderedElements ==
    CASE comp \in {"ArrayVisualizerFirst", "ArrayVisualizerSecond"} -> view.boxes
      [] comp \in {"StackVisualizer", "QueueVisualizer"} -> view.elements
      [] OTHER -> view.nodes
ElementId(e) == IF comp = "TreeVisualizer" THEN e.id ELSE e.index
ParallelLists(h) ==
    /\ h.t = "obj"
    /\ IsArray(Get(h, IdKey)) /\ IsArray(Get(h, "colors")) /\ IsArray(Get(h, "labels"))
\* every position of identifier i in ids is at or past n
OnlyPast(ids, i, n) ==
    /\ \E k \in 1..Len(ids.v) : ids.v[k] = i
    /\ \A k \in 1..Len(ids.v) : ids.v[k] = i => k > n

C3_FlatListNormalised ==
    (Mounted("ArrayVisualizerSecond") /\ view.kind = "ok" /\ IsArray(data) /\ IsArray(highlights))
    => LET n == view.annotation
       IN /\ n.indices = highlights
          /\ IsArray(n.colors) /\ Len(n.colors.v) = Len(highlights.v)
          /\ \A k \in 1..Len(n.colors.v) : n.colors.v[k] = Blue
          /\ IsArray(n.labels) /\ Len(n.labels.v) = Len(highlights.v)
          /\ \A k \in 1..Len(n.labels.v) : n.labels.v[k] = NullStr
C3_Witness ==
    /\ Mounted("ArrayVisualizerSecond") /\ view.kind = "ok"
    /\ IsArray(data) /\ IsArray(highlights) /\ Len(highlights.v) = MaxHl
    /\ Len(view.annotation.colors.v) = MaxHl
    /\ \E k \in 1..Len(view.boxes) : view.boxes[k].active /\ view.boxes[k].color = Blue

\* the cases of the dispatcher's switch
SwitchCases ==
    {"array", "sorting", "searching", "linkedlist", "stack", "bitmask", "binaryheap", "trees"}

\* C4: a module tag that is no case of the switch, with a present payload,
\* renders the 'Unsupported module type' placeholder naming the tag; the render
\* does not throw.
C4_UnknownTagUnsupported ==
    (Mounted("Visualizer") /\ Truthy(data) /\ module \notin SwitchCases)
    => /\ view.kind = "ok"
       /\ view.inner.kind = "unsupported"
       /\ view.inner.module = module
C4_Witness ==
    /\ Mounted("Visualizer") /\ module = "unknown_type" /\ data = GoodArray
    /\ view.kind = "ok" /\ view.inner.kind = "unsupported"

\* the structure kind a module tag implies
ImpliedKind(m) ==
    CASE m \in {"array", "sorting", "searching"} -> "array"
      [] m = "linkedlist" -> "linkedlist"
      [] m = "stack" -> "stack"
      [] m = "queue" -> "queue"
      [] m = "trees" -> "tree"
\* the kinds of the renderers whose output is in a dispatched view
InvokedKinds(inner) ==
    IF inner.comp = "factory"
    THEN (IF inner.kind = "ok" THEN {inner.children[k].comp : k \in 1..Len(inner.children)} ELSE {})
    ELSE IF inner.comp = "unsupported" THEN {}
    ELSE {inner.comp}

\* C5: for a tag that implies one structure kind and a present payload, the
\* dispatcher invokes the renderer of that kind and of no other kind.
\* (checked on single-structure payloads: values for the linear kinds, a frame
\* whose only populated category is trees for the tag trees)
CarriesKind(m, d) ==
    IF m = "trees"
    THEN /\ CountOf(Get(d, "trees")) > 0
         /\ \A k \in 1..Len(Categories) :
               Categories[k] # "trees" => CountOf(Get(d, Categories[k])) = 0
    ELSE IsArray(d) \/ IsArray(Get(d, "values"))
C5_SingleKindDispatched ==
    (/\ Mounted("Visualizer") /\ Truthy(data) /\ view.kind = "ok"
     /\ module \in {"array", "sorting", "searching", "linkedlist", "stack", "queue", "trees"}
     /\ CarriesKind(module, data))
    => InvokedKinds(view.inner) = {ImpliedKind(module)}

\* the renderer kind of a category of the structures-grid
KindOfCategory(category) ==
    CASE category = "arrays" -> "array"
      [] category = "trees" -> "tree"
      [] category = "graphs" -> "graph"
      [] category = "linked_lists" -> "linkedlist"
      [] category = "stacks" -> "stack"
      [] category = "queues" -> "queue"
\* the number of structures of the categories before the k-th
RECURSIVE Offset(_, _)
Offset(frame, k) ==
    IF k <= 1 THEN 0 ELSE Offset(frame, k - 1) + CountOf(Get(frame, Categories[k - 1]))
StructureTotal(frame) == Offset(frame, Len(Categories) + 1)

\* C6: the factory renders, for a composite frame, exactly the structures of
\* the non-empty categories: nothing for an absent or empty category, the
\* categories in the order arrays, trees, graphs, linked-lists, stacks, queues,
\* then the variables, and the structures of a category in their list order.
C6_PopulatedCategoriesInOrder ==
    (Mounted("VisualizerFactory") /\ Truthy(data))
    => /\ view.kind = "ok"
       /\ Len(view.children) = StructureTotal(data)
       /\ \A c \in 1..Len(Categories) :
            \A j \in 1..CountOf(Get(data, Categories[c])) :
               LET child == view.children[Offset(data, c) + j]
               IN /\ child.comp = KindOfCategory(Categories[c])
                  /\ child = RenderStructure(build, Categories[c], Get(data, Categories[c]).v[j])
       /\ (view.variables.kind = "ok") = (CountOf(Get(data, "variables")) > 0)

\* C7: in a composite frame a structure that fails to render never removes a
\* sibling: every structure of the frame that renders on its own is in the
\* factory's output.
C7_SiblingsSurviveMalformed ==
    (Mounted("VisualizerFactory") /\ Truthy(data))
    => \A c \in 1..Len(Categories) :
         \A j \in 1..CountOf(Get(data, Categories[c])) :
            LET own == RenderStructure(build, Categories[c], Get(data, Categories[c]).v[j])
            IN own.kind = "ok"
                 => /\ view.kind = "ok"
                    /\ \E k \in 1..Len(view.children) : view.children[k] = own

\* C8: whatever cursor the controller supplies, the frame counter shows
\* 'Frame k / n' with 1 <= k <= n (the index is clamped to [0, n-1]).
C8_CounterWithinFrames ==
    (Mounted("Visualizer") /\ module = "trees" /\ view.kind = "ok" /\ view.inner.kind = "ok")
    => /\ 1 <= view.inner.counter.k
       /\ view.inner.counter.k <= view.inner.counter.n

\* an absent payload (null, undefined) and an empty one (no element, no field)
Absent(d) == IsNullish(d)
Empty(d) == d = List(<<>>) \/ d = EmptyObj

\* C9 as stated: an absent or empty payload renders the neutral placeholder for
\* every module tag.
C9_AbsentOrEmptyPlaceholder ==
    (Mounted("Visualizer") /\ (Absent(data) \/ Empty(data))) => view.kind = "empty-viz"

\* C9, amended: an absent payload renders the neutral placeholder for every
\* module tag (Visualizer) and for the factory (an absent frame): never the
\* unsupported-type placeholder, a renderer's output or a failure.
C9_AbsentPlaceholder ==
    /\ (Mounted("Visualizer") /\ Absent(data)) => view.kind = "empty-viz"
    /\ (Mounted("VisualizerFactory") /\ Absent(data)) => view.kind = "placeholder"
C9_Witness ==
    /\ Mounted("Visualizer") /\ data = Null /\ module = "unknown_type"
    /\ view.kind = "empty-viz"

SnapshotNodes == Get(data, "nodes").v

\* C10 as stated: for a tree or graph snapshot with nodes, width and height are
\* both >= MARGIN, and >= x + MARGIN (y + MARGIN) of every node.
C10_CanvasAtLeastMargin ==
    (/\ comp \in {"TreeVisualizer", "TreeVisualizerSecond", "GraphVisualizer"}
     /\ view # Pending /\ view.kind = "ok")
    => /\ view.width >= MARGIN /\ view.height >= MARGIN
       /\ \A k \in 1..Len(SnapshotNodes) :
            /\ view.width >= SnapshotNodes[k].x + MARGIN
            /\ view.height >= SnapshotNodes[k].y + MARGIN

\* C10, amended: width >= x + MARGIN and height >= y + MARGIN for every node,
\* with equality for some node; width (height) >= MARGIN when some node has
\* x >= 0 (y >= 0).
C10_CanvasCoversNodes ==
    (/\ comp \in {"TreeVisualizer", "TreeVisualizerSecond", "GraphVisualizer"}
     /\ view # Pending /\ view.kind = "ok")
    => /\ \A k \in 1..Len(SnapshotNodes) :
            /\ view.width >= SnapshotNodes[k].x + MARGIN
            /\ view.height >= SnapshotNodes[k].y + MARGIN
       /\ \E k \in 1..Len(SnapshotNodes) : view.width = SnapshotNodes[k].x + MARGIN
       /\ \E k \in 1..Len(SnapshotNodes) : view.height = SnapshotNodes[k].y + MARGIN
       /\ (\E k \in 1..Len(SnapshotNodes) : SnapshotNodes[k].x >= 0) => view.width >= MARGIN
       /\ (\E k \in 1..Len(SnapshotNodes) : SnapshotNodes[k].y >= 0) => view.height >= MARGIN
C10_Witness ==
    /\ Mounted("TreeVisualizer") /\ view.kind = "ok"
    /\ Len(SnapshotNodes) = 2
    /\ SnapshotNodes[1].x < SnapshotNodes[2].x /\ SnapshotNodes[1].y > SnapshotNodes[2].y
    /\ view.width = SnapshotNodes[2].x + MARGIN
    /\ view.height = SnapshotNodes[1].y + MARGIN

Abs(n) == IF n < 0 THEN 0 - n ELSE n
ArrayRendered ==
    /\ comp \in {"ArrayVisualizerFirst", "ArrayVisualizerSecond"}
    /\ view # Pending /\ view.kind = "ok"

\* C11: the array renderer gives each element a bar height proportional to
\* |v| / maxAbsValue: every element has a numeric height, the height is
\* non-decreasing in |v|, positive and the same (SCALE) for the elements of
\* maximum magnitude, and 0 for every element when all values are 0.
C11_BarHeightScaled ==
    ArrayRendered
    => LET boxes == view.boxes
           h(k) == BoxHeight(comp, boxes[k])
           maxAbs == SetMax({Abs(boxes[k].value) : k \in 1..Len(boxes)} \cup {1})
       IN /\ \A k \in 1..Len(boxes) : h(k).t = "num"
          /\ \A j, k \in 1..Len(boxes) :
                Abs(boxes[j].value) <= Abs(boxes[k].value) => h(j).v <= h(k).v
          /\ \A k \in 1..Len(boxes) :
                /\ Abs(boxes[k].value) = maxAbs => h(k).v > 0
                /\ boxes[k].value = 0 => h(k).v = 0

Sides == {"left", "right"}
ChildRef(node, side) == IF side = "left" THEN node.left_child_id ELSE node.right_child_id
Resolves(id) == \E k \in 1..Len(SnapshotNodes) : SnapshotNodes[k].id = id
\* the child references of a tree snapshot that name a node of the snapshot
ResolvingRefs ==
    {ks \in (1..Len(SnapshotNodes)) \X Sides :
        LET ref == ChildRef(SnapshotNodes[ks[1]], ks[2])
        IN ref.t = "num" /\ Resolves(ref.v)}
\* the edges of a graph snapshot whose two endpoints name a node of the snapshot
ResolvingEdges ==
    {k \in 1..Len(Get(data, "edges").v) :
        /\ Resolves(Get(data, "edges").v[k].from_node)
        /\ Resolves(Get(data, "edges").v[k].to_node)}
TreeRendered ==
    /\ comp \in {"TreeVisualizer", "TreeVisualizerSecond"}
    /\ view # Pending /\ view.kind = "ok"
GraphRendered ==
    /\ comp = "GraphVisualizer" /\ view # Pending /\ view.kind = "ok"
    /\ IsArray(Get(data, "edges"))

\* C12: the tree and graph renderers emit an edge exactly for the references
\* whose endpoints are nodes of the snapshot: a dangling reference removes that
\* one edge only, every node is rendered, every other edge is rendered, and a
\* snapshot with a list of nodes (and of edges) never fails to render.
C12_EdgeIffEndpointsResolve ==
    /\ TreeRendered
         => /\ Len(view.nodes) = Len(SnapshotNodes)
            /\ Len(view.edges) = Cardinality(ResolvingRefs)
            /\ \A ks \in ResolvingRefs :
                  \E e \in 1..Len(view.edges) :
                     /\ view.edges[e].from = SnapshotNodes[ks[1]].id
                     /\ view.edges[e].side = ks[2]
                     /\ view.edges[e].to = ChildRef(SnapshotNodes[ks[1]], ks[2]).v
    /\ GraphRendered
         => /\ Len(view.nodes) = Len(SnapshotNodes)
            /\ Len(view.edges) = Cardinality(ResolvingEdges)
            /\ \A k \in ResolvingEdges :
                  \E e \in 1..Len(view.edges) :
                     /\ view.edges[e].index = k - 1
                     /\ view.edges[e].from = Get(data, "edges").v[k].from_node
                     /\ view.edges[e].to = Get(data, "edges").v[k].to_node
    /\ (/\ comp \in {"TreeVisualizer", "TreeVisualizerSecond", "GraphVisualizer"}
        /\ view # Pending
        /\ IsArray(Get(data, "nodes"))
        /\ Get(data, "edges") = Undef \/ IsArray(Get(data, "edges"))
        /\ Get(data, "highlights") = Undef)
         => view.kind # "throw"
\* a tree with one dangling and one valid child reference: two nodes, one edge
C12_Witness ==
    /\ TreeRendered /\ Len(SnapshotNodes) = 2
    /\ SnapshotNodes[1].left_child_id.t = "num" /\ ~Resolves(SnapshotNodes[1].left_child_id.v)
    /\ SnapshotNodes[1].right_child_id = Num(1)
    /\ Len(view.nodes) = 2 /\ Len(view.edges) = 1
    /\ view.edges[1].side = "right"

\* the values list of a linear snapshot: data.values, or data itself
LogicalValues == IF IsArray(data) THEN data ELSE Get(data, "values")
NonEmptyLinear(renderers) ==
    /\ comp \in renderers /\ view # Pending
    /\ IsArray(LogicalValues) /\ Len(LogicalValues.v) > 0
\* the elements are the values in reverse, each under its logical index, and
\* the TOP marker is on the last logical index alone
ReversedWithTop(elements, values) ==
    /\ Len(elements) = Len(values)
    /\ \A k \in 1..Len(elements) :
          /\ elements[k].value = values[Len(values) + 1 - k]
          /\ elements[k].index = Len(values) - k
          /\ elements[k].top = (elements[k].index = Len(values) - 1)
    /\ Cardinality({k \in 1..Len(elements) : elements[k].top}) = 1

\* C13: for a non-empty stack snapshot both stack renderers emit the elements
\* in the reverse of their logical order with exactly one TOP marker, on the
\* last logical index, whatever the highlight input is.
C13_ReversedWithOneTop ==
    NonEmptyLinear({"StackVisualizer", "StackVisualizerSecond"})
    => /\ view.kind = "ok"
       /\ ReversedWithTop(view.elements, LogicalValues.v)

\* FRONT is on logical index 0 alone and REAR on the last logical index alone
FrontAndRear(elements, values) ==
    /\ Len(elements) = Len(values)
    /\ \A k \in 1..Len(elements) :
          /\ elements[k].value = values[k]
          /\ elements[k].front = (k = 1)
          /\ elements[k].rear = (k = Len(values))

\* C14: for a non-empty queue snapshot both queue renderers attach FRONT to
\* the element at logical index 0 and REAR to the element at the last logical
\* index, whatever the highlight input and whatever front_index / rear_index
\* the snapshot carries or omits (stated of the renders that produce elements).
C14_FrontAndRearMarked ==
    (NonEmptyLinear({"QueueVisualizer", "QueueVisualizerSecond"}) /\ view.kind = "ok")
    => FrontAndRear(view.elements, LogicalValues.v)

EmptyQueue ==
    /\ comp \in {"QueueVisualizer", "QueueVisualizerSecond"} /\ view # Pending
    /\ IsArray(LogicalValues) /\ Len(LogicalValues.v) = 0
\* the parts of a rendered queue
QueueParts ==
    IF view.kind = "empty" THEN {"placeholder"}
    ELSE IF view.kind # "ok" THEN {}
    ELSE (IF "label" \in DOMAIN view THEN {"structure-label"} ELSE {})
           \cup (IF "header" \in DOMAIN view THEN {"front-rear-header"} ELSE {})
           \cup (IF "emptyNote" \in DOMAIN view /\ view.emptyNote THEN {"placeholder"} ELSE {})
           \cup (IF Len(view.elements) > 0 THEN {"element"} ELSE {})
           \cup (IF \E k \in 1..Len(view.elements) : view.elements[k].front \/ view.elements[k].rear
                 THEN {"marker"} ELSE {})

\* C15 as stated: a queue snapshot whose values list is empty renders the
\* empty-state placeholder and nothing else, without failing.
C15_EmptyPlaceholderOnly ==
    EmptyQueue => QueueParts = {"placeholder"}

\* C15, amended: a queue snapshot whose values list is empty renders the
\* empty-state placeholder with no element, no FRONT/REAR marker or header,
\* without failing; the flags variant keeps the structure's name label above
\* the placeholder, the props variant renders the placeholder alone.
C15_EmptyPlaceholderUnderLabel ==
    EmptyQueue
    => /\ view.kind # "throw"
       /\ "placeholder" \in QueueParts
       /\ QueueParts \subseteq {"placeholder", "structure-label"}
       /\ ("structure-label" \in QueueParts) = (comp = "QueueVisualizerSecond")
C15_Witness ==
    /\ Mounted("QueueVisualizer") /\ data = List(<<>>) /\ highlights = Null
    /\ view.kind = "empty"

FullParallelLists(h) ==
    /\ ParallelLists(h)
    /\ Len(Get(h, "colors").v) = Len(Get(h, IdKey).v)
    /\ Len(Get(h, "labels").v) = Len(Get(h, IdKey).v)

\* C17: for a parallel-list highlight, an identifier occurring more than once
\* included, the element named by the i-th identifier is rendered with the
\* i-th color and the i-th label, for every position i, in the linear
\* renderers and in the tree renderer alike (one entry per identifier).
C17_PairedByPosition ==
    LET h == ConsumedHighlight
    IN (/\ view # Pending
        /\ comp \in {"ArrayVisualizerFirst", "ArrayVisualizerSecond", "StackVisualizer",
                     "QueueVisualizer", "LinkedListVisualizer", "TreeVisualizer"}
        /\ (comp = "ArrayVisualizerSecond" => IsArray(data))
        /\ FullParallelLists(h)
        /\ view.kind = "ok")
       => \A p \in 1..Len(Get(h, IdKey).v) :
            \A k \in 1..Len(RenderedElements) :
               LET e == RenderedElements[k]
               IN ElementId(e) = Get(h, IdKey).v[p]
                    => /\ e.color = Get(h, "colors").v[p]
                       /\ e.label = Get(h, "labels").v[p]

\* the annotation an array render used, the identifiers it annotates, and
\* whether the comparison decoration is in the output
RenderedAnnotation ==
    IF comp = "ArrayVisualizerFirst" THEN Get(data, "highlights") ELSE view.annotation
AnnotatedIds ==
    LET ind == IndicesOf(RenderedAnnotation)
    IN IF IsArray(ind) THEN {ind.v[k] : k \in 1..Len(ind.v)} ELSE {}
\* the number of entries of the identifier list (what the code counts)
AnnotatedCount ==
    LET ind == IndicesOf(RenderedAnnotation)
    IN IF IsArray(ind) THEN Len(ind.v) ELSE 0
ComparisonShown ==
    IF comp = "ArrayVisualizerFirst" THEN view.comparison.shown ELSE Truthy(view.comparison)

\* C18: the array renderer shows the comparison decoration when two
\* identifiers, each naming an element, are annotated in the annotation it
\* renders with, and only when its identifier list has two entries; element i
\* is marked highlighted exactly when i is annotated.
C18_ComparisonIffTwoAnnotated ==
    ArrayRendered
    => /\ (/\ AnnotatedCount = 2 /\ Cardinality(AnnotatedIds) = 2
           /\ AnnotatedIds \subseteq 0..(Len(view.boxes) - 1)) => ComparisonShown
       /\ ComparisonShown => AnnotatedCount = 2
       /\ \A k \in 1..Len(view.boxes) :
             view.boxes[k].active = (view.boxes[k].index \in AnnotatedIds)

\* the highlight input of an array render: the prop of the second variant,
\* the snapshot's own highlights in the first
HighlightInput == IF comp = "ArrayVisualizerFirst" THEN Get(data, "highlights") ELSE highlights
\* neither absent, nor a flat list, nor an object with an identifier list: a
\* number, an object without indices, an object whose indices is not a list
Unrecognized(h) == h.t = "num" \/ (h.t = "obj" /\ ~IsArray(Get(h, "indices")))
ArrayGiven ==
    /\ comp \in {"ArrayVisualizerFirst", "ArrayVisualizerSecond"} /\ view # Pending
    /\ IsArray(LogicalValues) /\ Len(LogicalValues.v) > 0
    /\ (comp = "ArrayVisualizerSecond" => IsArray(data))

\* C19: given a highlight input of an unrecognized shape the array renderer
\* does not fail and renders as if there were no annotations: every element
\* unhighlighted, in the default unannotated color, without label.
C19_UnrecognizedShapeIgnored ==
    (ArrayGiven /\ Unrecognized(HighlightInput))
    => /\ view.kind = "ok"
       /\ \A k \in 1..Len(view.boxes) :
             /\ ~view.boxes[k].active
             /\ view.boxes[k].color = Green
             /\ ~TruthyStr(view.boxes[k].label)

RemoveAt(s, p) == [k \in 1..(Len(s) - 1) |-> IF k < p THEN s[k] ELSE s[k + 1]]
\* a parallel-list highlight without its p-th entry (identifier, color, label)
WithoutEntry(h, p) ==
    [f \in DOMAIN h |->
        IF f \in {IdKey, "colors", "labels"} /\ p <= Len(h[f].v)
        THEN List(RemoveAt(h[f].v, p)) ELSE h[f]]
\* the identifiers that name an element of the structure
KnownIds ==
    IF comp = "TreeVisualizer"
    THEN {SnapshotNodes[k].id : k \in 1..Len(SnapshotNodes)}
    ELSE 0..(Len(LogicalValues.v) - 1)
\* the render of the same structure without the p-th entry of its highlight input
RenderWithout(p) ==
    LET h == WithoutEntry(ConsumedHighlight, p)
    IN CASE comp = "ArrayVisualizerFirst" -> ArrayVisualizerFirst([data EXCEPT !.highlights = h])
         [] comp = "ArrayVisualizerSecond" -> ArrayVisualizerSecond(data, h)
         [] comp = "StackVisualizer" -> StackVisualizer(data, h)
         [] comp = "QueueVisualizer" -> QueueVisualizer(data, h)
         [] comp = "LinkedListVisualizer" -> LinkedListVisualizer([data EXCEPT !.highlights = h])
         [] comp = "TreeVisualizer" -> TreeVisualizer([data EXCEPT !.highlights = h])
\* what is drawn: the output without the annotation it was computed from
Drawn(v) == [f \in DOMAIN v \ {"annotation"} |-> v[f]]

\* C20: an annotated identifier that names no element of the structure has no
\* effect: the render does not fail and what is drawn equals what is drawn
\* with that identifier's entry removed from the highlight input.
C20_UnknownIdentifierNoEffect ==
    LET h == ConsumedHighlight
    IN (/\ view # Pending
        /\ comp \in {"ArrayVisualizerFirst", "ArrayVisualizerSecond", "StackVisualizer",
                     "QueueVisualizer", "LinkedListVisualizer", "TreeVisualizer"}
        /\ (comp = "ArrayVisualizerSecond" => IsArray(data))
        /\ (comp = "TreeVisualizer" => IsArray(Get(data, "nodes")))
        /\ (comp # "TreeVisualizer" => IsArray(LogicalValues))
        /\ ParallelLists(h))
       => /\ view.kind # "throw"
          /\ \A p \in 1..Len(Get(h, IdKey).v) :
                Get(h, IdKey).v[p] \notin KnownIds => Drawn(RenderWithout(p)) = Drawn(view)

ListRendered ==
    /\ comp \in {"LinkedListVisualizer", "LinkedListVisualizerSecond"}
    /\ view # Pending /\ view.kind = "ok"
\* the elements followed by a connector, and the elements followed by NULL
\* (the values variant draws its one NULL after the last element)
ConnectorsAfter == {k \in 1..Len(view.nodes) : view.nodes[k].arrow}
NullsAfter ==
    IF comp = "LinkedListVisualizer"
    THEN (IF view.nulls = 1 THEN {Len(view.nodes)} ELSE {})
    ELSE {k \in 1..Len(view.nodes) : view.nodes[k].null}

\* C21: for a linked-list snapshot of n >= 1 elements both renderers draw n-1
\* connectors, one after each element but the last, and one NULL marker,
\* after the last element, whatever the next fields of the nodes hold.
C21_ConnectorsAndOneNull ==
    ListRendered
    => /\ ConnectorsAfter = 1..(Len(view.nodes) - 1)
       /\ NullsAfter = {Len(view.nodes)}

\* C22: under every tag that is a case of the dispatcher's switch, and with
\* any present payload, the dispatcher mounts a renderer and shows what it
\* draws: the render does not end in a thrown failure.
C22_RecognizedTagsRender ==
    (Mounted("Visualizer") /\ Truthy(data) /\ module \in SwitchCases)
    => /\ view.kind = "ok"
       /\ view.inner.kind # "unsupported"
====
